---- MODULE Spec2Model ----
(***************************************************************************)
(* Model of blender_bash2_V2.py: multi-camera texture mapping.             *)
(*                                                                         *)
(* Numbers.  Lengths are integers counted in half units (a coordinate of  *)
(* 2 stands for 1.0, DEFAULT_EPSILON = 1.5 is 3).  UV values are exact     *)
(* rationals [n, d] in lowest terms with d > 0; floating-point rounding is *)
(* not modelled.  Camera rotations are Euler angles counted in quarter     *)
(* turns, so rotation matrices have entries in {-1, 0, 1}.                 *)
(***************************************************************************)
EXTENDS Integers, Sequences, FiniteSets, TLC

(***************************************************************************)
(* Vectors <<x, y, z>> and affine transforms [m |-> 3x3 rows, t |-> vec].  *)
(***************************************************************************)
Dot(a, b) == a[1] * b[1] + a[2] * b[2] + a[3] * b[3]

MatVec3(m, v) == <<Dot(m[1], v), Dot(m[2], v), Dot(m[3], v)>>

\* matrix_world @ v for a point v
MatApply(M, v) ==
    LET r == MatVec3(M.m, v)
    IN  <<r[1] + M.t[1], r[2] + M.t[2], r[3] + M.t[3]>>

\* matrix_world.to_3x3()
To3x3(M) == M.m

Transpose(m) ==
    << <<m[1][1], m[2][1], m[3][1]>>,
       <<m[1][2], m[2][2], m[3][2]>>,
       <<m[1][3], m[2][3], m[3][3]>> >>

MatMul(a, b) ==
    LET bt == Transpose(b)
    IN  << <<Dot(a[1], bt[1]), Dot(a[1], bt[2]), Dot(a[1], bt[3])>>,
           <<Dot(a[2], bt[1]), Dot(a[2], bt[2]), Dot(a[2], bt[3])>>,
           <<Dot(a[3], bt[1]), Dot(a[3], bt[2]), Dot(a[3], bt[3])>> >>

IdentityMatrix == << <<1, 0, 0>>, <<0, 1, 0>>, <<0, 0, 1>> >>

\* cos and sin of q quarter turns
CosQ(q) == <<1, 0, -1, 0>>[(q % 4) + 1]
SinQ(q) == <<0, 1, 0, -1>>[(q % 4) + 1]

\* Euler XYZ rotation (rx, ry, rz) as a matrix: Rz * Ry * Rx
EulerToMatrix(rot) ==
    LET rx == << <<1, 0, 0>>,
                 <<0, CosQ(rot[1]), -SinQ(rot[1])>>,
                 <<0, SinQ(rot[1]), CosQ(rot[1])>> >>
        ry == << <<CosQ(rot[2]), 0, SinQ(rot[2])>>,
                 <<0, 1, 0>>,
                 <<-SinQ(rot[2]), 0, CosQ(rot[2])>> >>
        rz == << <<CosQ(rot[3]), -SinQ(rot[3]), 0>>,
                 <<SinQ(rot[3]), CosQ(rot[3]), 0>>,
                 <<0, 0, 1>> >>
    IN  MatMul(rz, MatMul(ry, rx))

\* inverse of a rigid transform (rotation + translation, scale (1,1,1))
Inverted(M) ==
    LET mt == Transpose(M.m)
        r  == MatVec3(mt, M.t)
    IN  [m |-> mt, t |-> <<-r[1], -r[2], -r[3]>>]

(***************************************************************************)
(* Exact rationals.                                                        *)
(***************************************************************************)
Abs(x) == IF x < 0 THEN -x ELSE x

RECURSIVE Gcd(_, _)
Gcd(a, b) == IF b = 0 THEN a ELSE Gcd(b, a % b)

\* the rational n/d (d # 0) in lowest terms, denominator positive
Rat(n, d) ==
    LET g == Gcd(Abs(n), Abs(d))
        s == IF d < 0 THEN -1 ELSE 1
    IN  [n |-> (s * n) \div g, d |-> (s * d) \div g]

RInt(k) == [n |-> k, d |-> 1]
RAdd(a, b) == Rat(a.n * b.d + b.n * a.d, a.d * b.d)
RMul(a, b) == Rat(a.n * b.n, a.d * b.d)
RDiv(a, b) == Rat(a.n * b.d, a.d * b.n)
RLess(a, b) == a.n * b.d < b.n * a.d

Half == [n |-> 1, d |-> 2]

(***************************************************************************)
(* Configuration: SelectionParams.from_dict and CameraConfig.from_dict.    *)
(* A JSON object is a function from the keys it has to their values.       *)
(***************************************************************************)
DEFAULT_EPSILON == 3

DEFAULT_MATERIAL_BASENAME == "Material"

\* dict.get(key, default)
DictGet(data, key, default) == IF key \in DOMAIN data THEN data[key] ELSE default

EmptyDict == [k \in {} |-> 0]

SelectionParamsFromDict(data) ==
    [type             |-> DictGet(data, "type", "max_coord"),
     coord            |-> DictGet(data, "coord", 2),
     epsilon          |-> DictGet(data, "epsilon", DEFAULT_EPSILON),
     normal_direction |-> DictGet(data, "normal_direction", 1)]

CameraConfigFromDict(data) ==
    [name             |-> DictGet(data, "name", "Camera"),
     location         |-> DictGet(data, "location", <<0, 0, 20>>),
     rotation         |-> DictGet(data, "rotation", <<0, 0, 0>>),
     selection_params |-> SelectionParamsFromDict(DictGet(data, "selection_params", EmptyDict)),
     material_index   |-> DictGet(data, "material_index", 0),
     texture_path     |-> DictGet(data, "texture_path", "")]

\* ConfigManager.load_camera_configs: from_dict on every item, in file order
LoadCameraConfigs(items) == [k \in DOMAIN items |-> CameraConfigFromDict(items[k])]

(***************************************************************************)
(* Mesh: [verts |-> sequence of local positions (bm.verts),                *)
(*        faces |-> sequence of [verts |-> vertex indices, normal |-> vec],*)
(*        matrix_world |-> object-to-world transform].                     *)
(* A face normal is kept as an integer direction vector.                   *)
(***************************************************************************)
FaceIds(mesh) == DOMAIN mesh.faces

\* (matrix_world @ v.co)[coord_index]
WorldCoord(mesh, v, coord_index) ==
    MatApply(mesh.matrix_world, mesh.verts[v])[coord_index + 1]

RECURSIVE SeqMax(_)
SeqMax(s) ==
    IF Len(s) = 1 THEN s[1]
    ELSE LET m == SeqMax(Tail(s)) IN IF s[1] >= m THEN s[1] ELSE m

RECURSIVE SeqMin(_)
SeqMin(s) ==
    IF Len(s) = 1 THEN s[1]
    ELSE LET m == SeqMin(Tail(s)) IN IF s[1] <= m THEN s[1] ELSE m

\* the generator handed to max()/min(): the chosen coordinate of every vertex
AllVertCoords(mesh, coord_index) ==
    [v \in DOMAIN mesh.verts |-> WorldCoord(mesh, v, coord_index)]

\* variant: one vertex near the extremum is enough
AnyVertNearExtremum(mesh, face, type, coord_index, extremum, epsilon) ==
    LET coords == [k \in DOMAIN face.verts |-> WorldCoord(mesh, face.verts[k], coord_index)]
    IN  IF type = "max_coord"
        THEN \E k \in DOMAIN coords : coords[k] >= extremum - epsilon
        ELSE \E k \in DOMAIN coords : coords[k] <= extremum + epsilon

\* all(coord >= max_coord - epsilon ...) resp. all(coord <= min_coord + epsilon ...)
VertsNearExtremum(mesh, face, type, coord_index, extremum, epsilon) ==
    LET coords == [k \in DOMAIN face.verts |-> WorldCoord(mesh, face.verts[k], coord_index)]
    IN  IF type = "max_coord"
        THEN \A k \in DOMAIN coords : coords[k] >= extremum - epsilon
        ELSE \A k \in DOMAIN coords : coords[k] <= extremum + epsilon

\* the normal test of lines 347-356 / 372-381
NormalAccepted(mesh, face, coord_index, normal_direction) ==
    IF normal_direction # 0
    THEN LET normal_world == MatVec3(To3x3(mesh.matrix_world), face.normal)
         IN  \/ (normal_direction > 0 /\ normal_world[coord_index + 1] > 0)
             \/ (normal_direction < 0 /\ normal_world[coord_index + 1] < 0)
    ELSE TRUE

\* variant: the flags left by the previous call stay
DeselectNone(selected) == selected

\* "for face in bm.faces: face.select = False"
DeselectAll(selected) == {}

\* the "for face in bm.faces" loop: faces 1..k done, giving the select flags
\* (on top of the flags in start) and the running selected_count
RECURSIVE SelectLoop(_, _, _, _, _)
SelectLoop(mesh, params, extremum, start, k) ==
    IF k = 0 THEN [select |-> start, count |-> 0]
    ELSE LET prev == SelectLoop(mesh, params, extremum, start, k - 1)
             face == mesh.faces[k]
         IN  IF /\ VertsNearExtremum(mesh, face, params.type, params.coord,
                                     extremum, params.epsilon)
                /\ NormalAccepted(mesh, face, params.coord, params.normal_direction)
             THEN [select |-> prev.select \cup {k}, count |-> prev.count + 1]
             ELSE prev

\* FaceSelector.select_faces_by_criteria on a mesh whose faces in `selected`
\* carry the select flag.  raised: max()/min() of an empty sequence raises
\* ValueError (the select flags are cleared by then).
SelectFacesByCriteria(mesh, selected, params) ==
    LET cleared == DeselectAll(selected)
    IN  IF params.type \in {"max_coord", "min_coord"}
        THEN IF Len(mesh.verts) = 0
             THEN [raised |-> TRUE, select |-> cleared, count |-> 0]
             ELSE LET coords == AllVertCoords(mesh, params.coord)
                      extremum == IF params.type = "max_coord"
                                  THEN SeqMax(coords) ELSE SeqMin(coords)
                      r == SelectLoop(mesh, params, extremum, cleared, Len(mesh.faces))
                  IN  [raised |-> FALSE, select |-> r.select, count |-> r.count]
        ELSE [raised |-> FALSE, select |-> cleared, count |-> 0]

(***************************************************************************)
(* Cameras and UV projection.                                              *)
(***************************************************************************)
\* the camera data bpy.ops.object.camera_add creates: perspective, 36 x 24 mm
\* sensor, 50 mm lens
NewCameraData == [type |-> "PERSP", sensor_width |-> 36, sensor_height |-> 24, lens |-> 50]

\* BlenderHelper.add_camera: the new scene camera; scale is (1, 1, 1).  The
\* scene keeps object names unique: "camera.name = name" yields <<name, n>>
\* (name with suffix .00n) when n cameras of the scene already carry the name.
AddCamera(scene_cameras, name, location, rotation) ==
    [name     |-> <<name, Cardinality({c \in DOMAIN scene_cameras :
                                          scene_cameras[c].name[1] = name})>>,
     location |-> location,
     rotation |-> rotation,
     data     |-> NewCameraData]

\* camera.matrix_world
CameraMatrixWorld(camera) == [m |-> EulerToMatrix(camera.rotation), t |-> camera.location]

\* math.tan(fov / 2) with fov = 2 * math.atan(sensor_width / (2 * focal_length))
FovFactor(cam_data) == Rat(cam_data.sensor_width, 2 * cam_data.lens)

AspectRatio(cam_data) == Rat(cam_data.sensor_width, cam_data.sensor_height)

\* the vertex in camera space: cam_matrix_world_inv @ (obj.matrix_world @ co)
VertView(obj_matrix, cam_matrix_world_inv, co) ==
    MatApply(cam_matrix_world_inv, MatApply(obj_matrix, co))

\* variant: the sign of the camera's viewing axis is taken the other way
InFrontPositiveZ(vert_view) == vert_view[3] > 0

\* the test "vert_view.z < 0": the vertex is in front of the camera
InFront(vert_view) == vert_view[3] < 0

\* the UV of one loop, lines 266-291.  10.0 world units are 20 half units.
ProjectVertex(obj_matrix, cam_matrix_world_inv, cam_data, co) ==
    LET vert_view == VertView(obj_matrix, cam_matrix_world_inv, co)
    IN  IF cam_data.type = "PERSP"
        THEN IF InFront(vert_view)
             THEN LET screen_x   == Rat(vert_view[1], -vert_view[3])
                      screen_y   == Rat(vert_view[2], -vert_view[3])
                      fov_factor == FovFactor(cam_data)
                  IN  <<RAdd(Half, RDiv(screen_x,
                                 RMul(RMul(RInt(2), fov_factor), AspectRatio(cam_data)))),
                        RAdd(Half, RDiv(screen_y, RMul(RInt(2), fov_factor)))>>
             ELSE <<Half, Half>>
        ELSE <<RAdd(Half, Rat(vert_view[1], 20)), RAdd(Half, Rat(vert_view[2], 20))>>

\* UVProjector.project_from_view_manual: the UV layer afterwards.  uv[f][k] is
\* the UV of loop k of face f; only loops of selected faces are written.
ProjectFromViewManual(mesh, uv, selected, camera) ==
    LET cam_matrix_world_inv == Inverted(CameraMatrixWorld(camera))
    IN  [f \in FaceIds(mesh) |->
            IF f \in selected
            THEN [k \in DOMAIN mesh.faces[f].verts |->
                    ProjectVertex(mesh.matrix_world, cam_matrix_world_inv, camera.data,
                                  mesh.verts[mesh.faces[f].verts[k]])]
            ELSE uv[f]]

(***************************************************************************)
(* Materials.  A slot holds NoMaterial or [name, image]; image is the path *)
(* of the image of the material's texture node, or NoImage.                *)
(***************************************************************************)
NoMaterial == [name |-> <<>>, image |-> "<none>", empty |-> TRUE]

NoImage == "<no image>"

RECURSIVE GrowSlots(_, _)
\* while len(obj.material_slots) <= material_index: materials.append(None)
GrowSlots(slots, material_index) ==
    IF Len(slots) <= material_index
    THEN GrowSlots(Append(slots, NoMaterial), material_index)
    ELSE slots

\* the image the new texture node gets (lines 186-211): an image already in
\* bpy.data.images under this path, else a fresh load, which raises when the
\* file cannot be read; the except clause leaves the material without texture
AttachTexture(images, texture_path, readable) ==
    IF texture_path \in images THEN [image |-> texture_path, images |-> images]
    ELSE IF readable
         THEN [image |-> texture_path, images |-> images \cup {texture_path}]
         ELSE [image |-> NoImage, images |-> images]

\* variant: the failed load is not caught inside
SetupMaterialWithTextureUncaught(slots, images, material_index, texture_path, material_name, readable) ==
    LET grown == GrowSlots(slots, material_index)
        tex   == AttachTexture(images, texture_path, readable)
        mat   == [name |-> material_name, image |-> tex.image, empty |-> FALSE]
    IN  [slots  |-> [grown EXCEPT ![material_index + 1] = mat],
         images |-> tex.images,
         loaded |-> tex.image # NoImage,
         raised |-> tex.image = NoImage]

\* BlenderHelper.setup_material_with_texture: slots and loaded images afterwards
SetupMaterialWithTexture(slots, images, material_index, texture_path, material_name, readable) ==
    LET grown == GrowSlots(slots, material_index)
        tex   == AttachTexture(images, texture_path, readable)
        \* the slot's material is reused (renamed, nodes rebuilt) or created
        mat   == [name |-> material_name, image |-> tex.image, empty |-> FALSE]
    IN  [slots  |-> [grown EXCEPT ![material_index + 1] = mat],
         images |-> tex.images,
         loaded |-> tex.image # NoImage,
         \* "except Exception" (line 210) keeps a failed load inside
         raised |-> FALSE]

\* variant: a face that already left slot 0 keeps its slot
MaterialSlotAssignFirstWins(material_of, selected, active_material_index) ==
    [f \in DOMAIN material_of |->
        IF f \in selected /\ material_of[f] = 0
        THEN active_material_index ELSE material_of[f]]

\* bpy.ops.object.material_slot_assign(): the selected faces take the active slot
MaterialSlotAssign(material_of, selected, active_material_index) ==
    [f \in DOMAIN material_of |->
        IF f \in selected THEN active_material_index ELSE material_of[f]]

(***************************************************************************)
(* The run: TextureMapper.process, called by main with the loaded configs. *)
(***************************************************************************)
VARIABLES
    pc,             \* position in process(): "start", "validated", "loop", "done"
    files,          \* the paths that exist on disk
    configs,        \* self.configs
    result,         \* what process() returned ("success": True, "failure": False),
                    \* "none" until it returns
    defaultObjects, \* the start-up scene's objects are still there
    meshObj,        \* the imported mesh object, NoObject before / without one
    sceneCameras,   \* the camera objects of the scene, in creation order
    cameras,        \* self.cameras: name -> index into sceneCameras
    activeCamera,   \* bpy.context.scene.camera (0: not set)
    mode,           \* "OBJECT" or "EDIT"
    selected,       \* the faces whose select flag is set
    material_of,    \* face -> material_index of the face
    uv,             \* face -> loop -> UV
    slots,          \* obj.material_slots
    images,         \* filepaths of bpy.data.images
    i,              \* position of the next config in "for config in self.configs"
    log,            \* one record per call of process_camera_view
    exported,       \* the GLB was written
    ret             \* the value returned by a function called on its own
                    \* (SpecSelect, SpecProject); NoReturn during a run

vars == <<pc, files, configs, result, defaultObjects, meshObj, sceneCameras, cameras,
          activeCamera, mode, selected, material_of, uv, slots, images, i, log, exported,
          ret>>

INPUT_PLY == "input.ply"

NoReturn == [kind |-> "none"]

Returned(value) == [kind |-> "value", value |-> value]

Raised == [kind |-> "raised"]

NoObject == [type |-> "NONE", verts |-> <<>>, faces |-> <<>>,
             matrix_world |-> [m |-> IdentityMatrix, t |-> <<0, 0, 0>>]]

\* variant: only the first camera's texture is looked at
ValidateConfigsFirstOnly(existing, input_ply, cfgs) ==
    /\ input_ply \in existing
    /\ \A k \in DOMAIN cfgs \cap {1} : cfgs[k].texture_path \in existing

\* TextureMapper.validate_configs with CameraConfig.validate
ValidateConfigs(existing, input_ply, cfgs) ==
    /\ input_ply \in existing
    /\ \A k \in DOMAIN cfgs : cfgs[k].texture_path \in existing

\* the loop "for config in self.configs: self.cameras[config.name] = add_camera(...)"
RECURSIVE AddCameras(_, _)
AddCameras(cfgs, k) ==
    IF k = 0 THEN [objs |-> <<>>, dict |-> EmptyDict]
    ELSE LET prev == AddCameras(cfgs, k - 1)
             cam  == AddCamera(prev.objs, cfgs[k].name, cfgs[k].location, cfgs[k].rotation)
         IN  [objs |-> Append(prev.objs, cam),
              dict |-> [n \in DOMAIN prev.dict \cup {cfgs[k].name} |->
                           IF n = cfgs[k].name THEN k ELSE prev.dict[n]]]

\* f"{DEFAULT_MATERIAL_BASENAME}_{config.name}"
MaterialName(config) == <<DEFAULT_MATERIAL_BASENAME, config.name>>

\* variant: the step goes on with an empty selection
NothingSelectedIgnored(selected_count) == FALSE

\* "if selected_count == 0": the step stops with a warning
NothingSelected(selected_count) == selected_count = 0

\* what process() returns once the loop is over: the results of the camera
\* steps are not looked at; an exception of the mode switch or of the export
\* is caught by the outer handler
ProcessReturn(step_log, export_raised) ==
    IF export_raised THEN "failure" ELSE "success"

\* variant: a failed camera ends the loop
NextConfigStopOnFailure(k, returned) == IF returned THEN k + 1 ELSE Len(configs) + 1

\* the config taken after config i in "for config in self.configs"
NextConfig(k, returned) == k + 1

(***************************************************************************)
(* Inputs of a run.                                                        *)
(***************************************************************************)
MaxCameras == 2

TexturePaths == {"tex_a.png", "tex_b.png"}

\* the files on disk: all of them, or all but one
FileSystems(paths) == {paths} \cup {paths \ {p} : p \in paths}

IdentityTransform == [m |-> IdentityMatrix, t |-> <<0, 0, 0>>]

\* a PLY file without vertices
MeshEmpty == [type |-> "MESH", verts |-> <<>>, faces |-> <<>>,
              matrix_world |-> IdentityTransform]

\* a point cloud: vertices, no faces
MeshPoints == [type |-> "MESH",
               verts |-> << <<0, 0, 0>>, <<2, 0, 1>>, <<0, 2, 4>> >>,
               faces |-> <<>>,
               matrix_world |-> IdentityTransform]

\* the unit cube centred at the origin: local corners at +-1, object scale 2
\* (world coordinates are in half units)
MeshCube ==
    [type |-> "MESH",
     verts |-> << <<-1, -1, -1>>, <<1, -1, -1>>, <<1, 1, -1>>, <<-1, 1, -1>>,
                  <<-1, -1, 1>>,  <<1, -1, 1>>,  <<1, 1, 1>>,  <<-1, 1, 1>> >>,
     faces |-> << [verts |-> <<1, 4, 3, 2>>, normal |-> <<0, 0, -1>>],
                  [verts |-> <<5, 6, 7, 8>>, normal |-> <<0, 0, 1>>],
                  [verts |-> <<1, 2, 6, 5>>, normal |-> <<0, -1, 0>>],
                  [verts |-> <<2, 3, 7, 6>>, normal |-> <<1, 0, 0>>],
                  [verts |-> <<3, 4, 8, 7>>, normal |-> <<0, 1, 0>>],
                  [verts |-> <<4, 1, 5, 8>>, normal |-> <<-1, 0, 0>>] >>,
     matrix_world |-> [m |-> << <<2, 0, 0>>, <<0, 2, 0>>, <<0, 0, 2>> >>,
                       t |-> <<0, 0, 0>>]]

\* what the PLY import can leave in the scene
ImportedMeshes == {MeshEmpty, MeshPoints, MeshCube}

\* the "selection_params" objects of the configuration files considered: every
\* face within two units above the lowest vertex, whatever its normal, or a
\* type without implementation; a camera may also leave the key out
SelectionDicts ==
    { [type |-> "min_coord", coord |-> 2, epsilon |-> 4, normal_direction |-> 0],
      [type |-> "custom"] }

\* pose of the k-th camera of a file: cameras 1, 4, ... leave location and
\* rotation out, the others look down from the side or sit at the origin,
\* turned upside down
PoseDict(k) ==
    CASE k % 3 = 1 -> EmptyDict
      [] k % 3 = 2 -> [location |-> <<2, 0, 24>>, rotation |-> <<0, 0, 1>>]
      [] OTHER     -> [location |-> <<0, 0, 0>>, rotation |-> <<2, 0, 0>>]

CameraNames == <<"Camera_Top", "Camera_B", "Camera_C", "Camera_D">>

\* merge of two JSON objects with disjoint keys
Merge(a, b) == [k \in DOMAIN a \cup DOMAIN b |-> IF k \in DOMAIN a THEN a[k] ELSE b[k]]

\* the JSON objects a file can hold at position k; named: the file gives its
\* cameras names.  material_index is left out (default 0) or 1.  The two
\* texture files are interchangeable, so the first camera's is called tex_a.
CameraDicts(k, named) ==
    { Merge(Merge(Merge(IF named THEN [name |-> CameraNames[k]] ELSE EmptyDict, PoseDict(k)),
                  Merge(sel, mat)),
            [texture_path |-> tex]) :
        sel \in {EmptyDict} \cup {[selection_params |-> d] : d \in SelectionDicts},
        mat \in {EmptyDict, [material_index |-> 1]},
        tex \in IF k = 1 THEN {"tex_a.png"} ELSE TexturePaths }

RECURSIVE ConfigFilesOfLen(_, _)
ConfigFilesOfLen(n, named) ==
    IF n = 0 THEN {<<>>}
    ELSE {Append(f, d) : f \in ConfigFilesOfLen(n - 1, named), d \in CameraDicts(n, named)}

\* the JSON arrays considered: up to MaxCameras cameras
ConfigFiles ==
    UNION {ConfigFilesOfLen(n, named) : n \in 0..MaxCameras, named \in BOOLEAN}

Init ==
    /\ pc = "start"
    /\ files \in FileSystems({INPUT_PLY} \cup TexturePaths)
    /\ \E items \in ConfigFiles : configs = LoadCameraConfigs(items)
    /\ result = "none"
    /\ defaultObjects = TRUE
    /\ meshObj = NoObject
    /\ sceneCameras = <<>>
    /\ cameras = EmptyDict
    /\ activeCamera = 0
    /\ mode = "OBJECT"
    /\ selected = {}
    /\ material_of = <<>>
    /\ uv = <<>>
    /\ slots = <<>>
    /\ images = {}
    /\ i = 0
    /\ log = <<>>
    /\ exported = FALSE
    /\ ret = NoReturn

\* process(), lines 543-544
Validate ==
    /\ pc = "start"
    /\ IF ValidateConfigs(files, INPUT_PLY, configs)
       THEN /\ pc' = "validated"
            /\ result' = result
       ELSE /\ pc' = "done"
            /\ result' = "failure"
    /\ UNCHANGED <<files, configs, defaultObjects, meshObj, sceneCameras, cameras,
                   activeCamera, mode, selected, material_of, uv, slots, images, i, log,
                   exported, ret>>

\* process(), lines 547-549, with setup_scene.  The import raises (caught:
\* None is returned before any camera is added), or leaves no mesh object, or
\* leaves a mesh whose faces come selected or not.
SetupScene ==
    /\ pc = "validated"
    /\ defaultObjects' = FALSE
    /\ \E imported \in ImportedMeshes \cup {NoObject}, raised, flagged \in BOOLEAN :
         LET added == AddCameras(configs, Len(configs))
         IN  /\ raised => (imported = NoObject /\ ~flagged)
             /\ flagged => Len(imported.faces) > 0
             /\ meshObj' = imported
             /\ sceneCameras' = IF raised THEN sceneCameras ELSE added.objs
             /\ cameras' = IF raised THEN cameras ELSE added.dict
             /\ selected' = IF flagged THEN FaceIds(imported) ELSE {}
             /\ material_of' = [f \in FaceIds(imported) |-> 0]
             /\ uv' = [f \in FaceIds(imported) |->
                          [k \in DOMAIN imported.faces[f].verts |-> <<RInt(0), RInt(0)>>]]
             /\ IF imported = NoObject
                THEN pc' = "done" /\ result' = "failure" /\ i' = i
                ELSE pc' = "loop" /\ result' = result /\ i' = 1
    /\ UNCHANGED <<files, configs, activeCamera, mode, slots, images, log, exported, ret>>

\* the record logged for one call of process_camera_view: the position of its
\* config, what the call returned, the level and kind of the message it ended
\* with and whether a texture load was logged as failed
StepRecord(index, returned, level, event, load_failed) ==
    [index |-> index, returned |-> returned, level |-> level, event |-> event,
     load_failed |-> load_failed]

\* process_camera_view(mesh_obj, configs[i]) and the loop's advance.  readable:
\* whether bpy.data.images.load can read the texture, should it be called.
ProcessCameraView ==
    /\ pc = "loop"
    /\ i <= Len(configs)
    /\ \E readable \in BOOLEAN :
         LET config == configs[i]
         IN  IF config.name \notin DOMAIN cameras
             THEN /\ log' = Append(log, StepRecord(i, FALSE, "error", "camera not found", FALSE))
                  /\ i' = NextConfig(i, FALSE)
                  /\ UNCHANGED <<activeCamera, mode, selected, material_of, uv, slots, images>>
             ELSE LET camera == sceneCameras[cameras[config.name]]
                      sel    == SelectFacesByCriteria(meshObj, selected, config.selection_params)
                      mat    == SetupMaterialWithTexture(slots, images,
                                    config.material_index, config.texture_path,
                                    MaterialName(config), readable)
                  IN  /\ activeCamera' = cameras[config.name]
                      /\ mode' = "EDIT"
                      /\ selected' = sel.select
                      /\ IF sel.raised
                         THEN /\ log' = Append(log, StepRecord(i, FALSE, "error", "exception", FALSE))
                              /\ i' = NextConfig(i, FALSE)
                              /\ UNCHANGED <<material_of, uv, slots, images>>
                         ELSE IF NothingSelected(sel.count)
                         THEN /\ log' = Append(log, StepRecord(i, FALSE, "warning",
                                                               "nothing selected", FALSE))
                              /\ i' = NextConfig(i, FALSE)
                              /\ UNCHANGED <<material_of, uv, slots, images>>
                         ELSE IF mat.raised
                         THEN /\ slots' = mat.slots
                              /\ images' = mat.images
                              /\ log' = Append(log, StepRecord(i, FALSE, "error", "exception", TRUE))
                              /\ i' = NextConfig(i, FALSE)
                              /\ UNCHANGED <<material_of, uv>>
                         ELSE /\ slots' = mat.slots
                              /\ images' = mat.images
                              /\ material_of' = MaterialSlotAssign(material_of, sel.select,
                                                                   config.material_index)
                              /\ uv' = ProjectFromViewManual(meshObj, uv, sel.select, camera)
                              /\ log' = Append(log, StepRecord(i, TRUE, "info", "done",
                                                               ~mat.loaded))
                              /\ i' = NextConfig(i, TRUE)
    /\ UNCHANGED <<pc, files, configs, result, defaultObjects, meshObj, sceneCameras, cameras,
                   exported, ret>>

\* process(), lines 555-569: back to object mode, export, return.  raised: the
\* export raises (say, the output path cannot be written).
Finalize ==
    /\ pc = "loop"
    /\ i > Len(configs)
    /\ \E raised \in BOOLEAN :
         /\ exported' = ~raised
         /\ result' = ProcessReturn(log, raised)
    /\ mode' = "OBJECT"
    /\ pc' = "done"
    /\ UNCHANGED <<files, configs, defaultObjects, meshObj, sceneCameras, cameras,
                   activeCamera, selected, material_of, uv, slots, images, i, log, ret>>

Next == Validate \/ SetupScene \/ ProcessCameraView \/ Finalize

Spec == Init /\ [][Next]_vars

\* main(): sys.exit(0 if success else 1)
ExitCode == IF result = "success" THEN 0 ELSE 1

(***************************************************************************)
(* FaceSelector.select_faces_by_criteria called on its own.                *)
(***************************************************************************)
MaxEpsilon == 4

\* two triangles of a sloping strip and a loose vertex, mirrored in z and
\* lifted by the object transform
MeshStrip ==
    [type |-> "MESH",
     verts |-> << <<0, 0, 0>>, <<4, 0, 0>>, <<0, 4, 0>>, <<4, 4, 2>>, <<0, 0, -5>> >>,
     faces |-> << [verts |-> <<1, 3, 2>>, normal |-> <<0, 0, -1>>],
                  [verts |-> <<2, 3, 4>>, normal |-> <<1, 1, -2>>] >>,
     matrix_world |-> [m |-> << <<1, 0, 0>>, <<0, 1, 0>>, <<0, 0, -1>> >>,
                       t |-> <<0, 0, 2>>]]

\* a roof: two quads rising to a ridge along y, above a floor quad
MeshRoof ==
    [type |-> "MESH",
     verts |-> << <<-2, -2, 0>>, <<2, -2, 0>>, <<2, 2, 0>>, <<-2, 2, 0>>,
                  <<0, -2, 3>>, <<0, 2, 3>> >>,
     faces |-> << [verts |-> <<1, 4, 3, 2>>, normal |-> <<0, 0, -1>>],
                  [verts |-> <<1, 5, 6, 4>>, normal |-> <<-3, 0, 2>>],
                  [verts |-> <<2, 3, 6, 5>>, normal |-> <<3, 0, 2>>] >>,
     matrix_world |-> [m |-> IdentityMatrix, t |-> <<1, 0, -1>>]]

SelectMeshes == {MeshEmpty, MeshPoints, MeshCube, MeshStrip, MeshRoof}

SelectParams ==
    [type : {"max_coord", "min_coord", "custom"},
     coord : 0..2,
     epsilon : 0..MaxEpsilon,
     normal_direction : {1, -1, 0}]

\* the state before the call: a mesh in edit mode with none or all of its
\* faces selected, and the selection_params of the one config
InitSelect ==
    /\ pc = "select"
    /\ meshObj \in SelectMeshes
    /\ \E p \in SelectParams :
          configs = LoadCameraConfigs(<<[selection_params |-> p, texture_path |-> "tex_a.png"]>>)
    /\ selected \in {{}, FaceIds(meshObj)}
    /\ mode = "EDIT"
    /\ material_of = [f \in FaceIds(meshObj) |-> 0]
    /\ uv = [f \in FaceIds(meshObj) |->
                [k \in DOMAIN meshObj.faces[f].verts |-> <<RInt(0), RInt(0)>>]]
    /\ files = {}
    /\ result = "none"
    /\ defaultObjects = FALSE
    /\ sceneCameras = <<>>
    /\ cameras = EmptyDict
    /\ activeCamera = 0
    /\ slots = <<>>
    /\ images = {}
    /\ i = 1
    /\ log = <<>>
    /\ exported = FALSE
    /\ ret = NoReturn

\* selected_count = FaceSelector.select_faces_by_criteria(obj, selection_params)
SelectCall ==
    /\ pc = "select"
    /\ LET r == SelectFacesByCriteria(meshObj, selected, configs[1].selection_params)
       IN  /\ selected' = r.select
           /\ ret' = IF r.raised THEN Raised ELSE Returned(r.count)
    /\ pc' = "selected"
    /\ UNCHANGED <<files, configs, result, defaultObjects, meshObj, sceneCameras, cameras,
                   activeCamera, mode, material_of, uv, slots, images, i, log, exported>>

SpecSelect == InitSelect /\ [][SelectCall]_vars

(***************************************************************************)
(* UVProjector.project_from_view_manual called on its own.                 *)
(***************************************************************************)
ProjectMeshes == {MeshCube, MeshRoof}

\* camera poses: above the mesh, level with the top of the cube, at the
\* origin, on a corner of the cube, beside the mesh; upright, turned about z,
\* upside down, looking along y
ProjectLocations == {<<0, 0, 20>>, <<0, 0, 2>>, <<0, 0, 0>>, <<2, 2, 2>>, <<1, -9, 0>>}

ProjectRotations == {<<0, 0, 0>>, <<0, 0, 1>>, <<2, 0, 0>>, <<1, 0, 0>>}

\* the state before the call: a mesh in edit mode with some faces selected and
\* a scene camera, perspective as add_camera leaves it or switched to
\* orthographic
InitProject ==
    /\ pc = "project"
    /\ meshObj \in ProjectMeshes
    /\ selected \in SUBSET FaceIds(meshObj)
    /\ \E loc \in ProjectLocations, rot \in ProjectRotations, type \in {"PERSP", "ORTHO"} :
          sceneCameras = <<[AddCamera(<<>>, "Camera", loc, rot)
                               EXCEPT !.data.type = type]>>
    /\ cameras = [n \in {"Camera"} |-> 1]
    /\ activeCamera = 1
    /\ mode = "EDIT"
    /\ material_of = [f \in FaceIds(meshObj) |-> 0]
    /\ uv = [f \in FaceIds(meshObj) |->
                [k \in DOMAIN meshObj.faces[f].verts |-> <<RInt(0), RInt(0)>>]]
    /\ configs = <<>>
    /\ files = {}
    /\ result = "none"
    /\ defaultObjects = FALSE
    /\ slots = <<>>
    /\ images = {}
    /\ i = 1
    /\ log = <<>>
    /\ exported = FALSE
    /\ ret = NoReturn

\* UVProjector.project_from_view_manual(obj, camera): False without selected
\* faces, else the UVs are written and True is returned
ProjectCall ==
    /\ pc = "project"
    /\ IF selected = {}
       THEN uv' = uv /\ ret' = Returned(FALSE)
       ELSE /\ uv' = ProjectFromViewManual(meshObj, uv, selected, sceneCameras[activeCamera])
            /\ ret' = Returned(TRUE)
    /\ pc' = "projected"
    /\ UNCHANGED <<files, configs, result, defaultObjects, meshObj, sceneCameras, cameras,
                   activeCamera, mode, selected, material_of, slots, images, i, log, exported>>

SpecProject == InitProject /\ [][ProjectCall]_vars

(***************************************************************************)
(* Statements about a run.                                                 *)
(***************************************************************************)
\* nothing of the scene has been touched and no camera has been processed
Untouched ==
    /\ defaultObjects
    /\ meshObj = NoObject
    /\ sceneCameras = <<>>
    /\ cameras = EmptyDict
    /\ activeCamera = 0
    /\ mode = "OBJECT"
    /\ selected = {}
    /\ material_of = <<>>
    /\ uv = <<>>
    /\ slots = <<>>
    /\ images = {}
    /\ log = <<>>
    /\ ~exported

\* the input mesh file or the texture of some camera does not exist
SomeInputMissing ==
    \/ INPUT_PLY \notin files
    \/ \E k \in DOMAIN configs : configs[k].texture_path \notin files

\* validation and scene setup have passed
SetupPassed == pc \in {"loop", "done"} /\ meshObj.type = "MESH"

\* the faces the criteria describe (section 4.1 of the specification): every
\* vertex within tolerance of the extremum over all vertices of the mesh, and
\* the normal on the demanded side
FacesOfCriteria(mesh, params) ==
    LET coord == [v \in DOMAIN mesh.verts |-> WorldCoord(mesh, v, params.coord)]
        vals  == {coord[v] : v \in DOMAIN mesh.verts}
        hi    == CHOOSE m \in vals : \A w \in vals : w <= m
        lo    == CHOOSE m \in vals : \A w \in vals : w >= m
        n(f)  == MatVec3(To3x3(mesh.matrix_world), mesh.faces[f].normal)[params.coord + 1]
        near(f) ==
            \A k \in DOMAIN mesh.faces[f].verts :
               IF params.type = "max_coord"
               THEN coord[mesh.faces[f].verts[k]] >= hi - params.epsilon
               ELSE coord[mesh.faces[f].verts[k]] <= lo + params.epsilon
        side(f) ==
            \/ params.normal_direction = 0
            \/ params.normal_direction > 0 /\ n(f) > 0
            \/ params.normal_direction < 0 /\ n(f) < 0
    IN  IF params.type \in {"max_coord", "min_coord"}
        THEN {f \in FaceIds(mesh) : near(f) /\ side(f)}
        ELSE {}

\* per processed camera, the faces it wrote: those its criteria cover when the
\* call returned success, none otherwise
Written ==
    [k \in DOMAIN log |->
        IF log[k].returned
        THEN FacesOfCriteria(meshObj, configs[k].selection_params) ELSE {}]

\* the processed cameras that wrote face f, given Written as w
Writers(w, f) == {k \in DOMAIN w : f \in w[k]}

SetMax(S) == CHOOSE m \in S : \A x \in S : x <= m

\* the UVs camera number k of the file gives face f: projected through the
\* scene camera found under the name of config k
UVFrom(k, f) ==
    LET camera == sceneCameras[cameras[configs[k].name]]
        inv    == Inverted(CameraMatrixWorld(camera))
    IN  [j \in DOMAIN meshObj.faces[f].verts |->
            ProjectVertex(meshObj.matrix_world, inv, camera.data,
                          meshObj.verts[meshObj.faces[f].verts[j]])]

\* the texture a face shows: the image of the material in the face's slot
TextureOf(f) ==
    IF material_of[f] + 1 \in DOMAIN slots THEN slots[material_of[f] + 1].image ELSE NoImage

\* C1: when the input mesh file or the texture of any camera, at whatever
\* position, is missing, the run ends in failure (exit code 1) and nothing
\* has been touched: no deletion, import, camera, selection, UV, material
\* slot, material index or export.
C1_ValidationFailsFast ==
    SomeInputMissing =>
        /\ Untouched
        /\ pc \in {"start", "done"}
        /\ pc = "done" => (result = "failure" /\ ExitCode = 1)

\* C1 witness: the run has ended and only the last of two cameras lacks its
\* texture.
C1_Witness ==
    /\ pc = "done"
    /\ INPUT_PLY \in files
    /\ Len(configs) = 2
    /\ configs[1].texture_path \in files
    /\ configs[2].texture_path \notin files

\* C2 as stated: once validation and scene setup have passed, every camera is
\* processed exactly once in order and the run ends with success, however
\* many cameras failed.
C2_AlwaysSuccess ==
    (SetupPassed /\ pc = "done") =>
        /\ Len(log) = Len(configs)
        /\ \A k \in DOMAIN log : log[k].index = k
        /\ result = "success"
        /\ ExitCode = 0

\* C2 amended: once validation and scene setup have passed, the cameras are
\* processed one after the other in configuration order, each exactly once,
\* whatever the earlier ones returned; the run always goes on to the export,
\* and it reports success (exit code 0) exactly when the mode switch and the
\* export did not raise, however many cameras failed.
C2_CamerasNeverAbort ==
    SetupPassed =>
        /\ \A k \in DOMAIN log : log[k].index = k
        /\ pc = "loop" => (Len(log) = i - 1 /\ i \in 1..(Len(configs) + 1))
        /\ pc = "done" =>
              /\ Len(log) = Len(configs)
              /\ result = (IF exported THEN "success" ELSE "failure")
              /\ ExitCode = (IF exported THEN 0 ELSE 1)

\* C2 witness: a run of two cameras that both failed (the second by an
\* exception or an empty selection) ended with the export and success.
C2_Witness ==
    /\ pc = "done"
    /\ Len(log) = 2
    /\ ~log[1].returned
    /\ ~log[2].returned
    /\ exported
    /\ result = "success"

\* C3: a face covered by two or more cameras that returned success carries
\* the material slot index of the latest of them in configuration order, and
\* each of its loops the UV that camera projected.
C3_LastCameraWins ==
    SetupPassed =>
        LET w == Written
        IN  \A f \in FaceIds(meshObj) :
                Cardinality(Writers(w, f)) >= 2 =>
                    LET last == SetMax(Writers(w, f))
                    IN  /\ material_of[f] = configs[last].material_index
                        /\ uv[f] = UVFrom(last, f)

\* C3 witness: at the end of a run a face was written by cameras 1 and 2,
\* which differ in material slot and in the UVs they give the face.
C3_Witness ==
    /\ pc = "done"
    /\ \E f \in FaceIds(meshObj) :
          /\ Writers(Written, f) = {1, 2}
          /\ configs[1].material_index # configs[2].material_index
          /\ UVFrom(1, f) # UVFrom(2, f)

\* C4: when no texture load failed, every face written by some camera shows
\* the texture of the latest camera that wrote it, whatever the material
\* indexes of the cameras; so a later camera leaves the texture of the faces
\* it did not select as it was.
C4_OwnTexture ==
    (SetupPassed /\ \A k \in DOMAIN log : ~log[k].load_failed) =>
        LET w == Written
        IN  \A f \in FaceIds(meshObj) :
                Writers(w, f) # {} =>
                    TextureOf(f) = configs[SetMax(Writers(w, f))].texture_path


\* C6: a camera step clears the selection it finds and selects only faces of
\* its own criteria; every face it does not select, faces of earlier cameras
\* included, keeps its material slot index and its UVs.
C6_WritesConfined ==
    [][Len(log') = Len(log) + 1 =>
          /\ selected' \subseteq FacesOfCriteria(meshObj, configs[i].selection_params)
          /\ \A f \in FaceIds(meshObj) \ selected' :
                material_of'[f] = material_of[f] /\ uv'[f] = uv[f]]_vars

\* C6 witness: two cameras returned success; a face of the first that the
\* second did not select is deselected and still carries the first camera's
\* slot and UVs, which differ from what the second camera would have given.
C6_Witness ==
    /\ Len(log) = 2
    /\ log[1].returned /\ log[2].returned
    /\ \E f \in Written[1] \ Written[2] :
          /\ f \notin selected
          /\ material_of[f] = configs[1].material_index
          /\ configs[1].material_index # configs[2].material_index
          /\ uv[f] = UVFrom(1, f)
          /\ uv[f] # UVFrom(2, f)

\* C8: when the imported mesh has no vertices, the run ends in failure
\* without having processed any camera.
C8_EmptyMeshRejected ==
    (pc = "done" /\ meshObj.type = "MESH" /\ Len(meshObj.verts) = 0 /\ Len(configs) > 0) =>
        /\ result = "failure"
        /\ log = <<>>
        /\ ~exported

\* C9: a camera step whose texture load failed still returns success; right
\* after it the faces of its criteria carry its material slot index and its
\* projected UVs, its slot holds a material without image, and the loop is at
\* the next camera.
C9_LoadFailureAbsorbed ==
    /\ \A k \in DOMAIN log : log[k].load_failed => (log[k].returned /\ log[k].level = "info")
    /\ (log # <<>> /\ log[Len(log)].load_failed) =>
          LET k == Len(log)
              slot == configs[k].material_index + 1
          IN  /\ FacesOfCriteria(meshObj, configs[k].selection_params) # {}
              /\ \A f \in FacesOfCriteria(meshObj, configs[k].selection_params) :
                    material_of[f] = configs[k].material_index /\ uv[f] = UVFrom(k, f)
              /\ slot \in DOMAIN slots
              /\ slots[slot] = [name |-> MaterialName(configs[k]), image |-> NoImage,
                                empty |-> FALSE]
              /\ pc = "loop" => i = k + 1

\* C9 witness: the first camera's texture load failed, the call returned
\* success, and the second camera was processed with its texture loaded.
C9_Witness ==
    /\ Len(log) = 2
    /\ log[1].load_failed /\ log[1].returned
    /\ log[2].returned /\ ~log[2].load_failed
    /\ slots[configs[2].material_index + 1].image = configs[2].texture_path

\* the criteria select no face of the mesh: the selection type is not one of
\* the two implemented, or no face of a mesh with vertices passes
SelectsNothing(mesh, params) ==
    \/ params.type \notin {"max_coord", "min_coord"}
    \/ Len(mesh.verts) > 0 /\ FacesOfCriteria(mesh, params) = {}

\* C10: a camera step whose criteria select no face leaves the UVs, the
\* material slot index of every face, the material slots and the loaded images
\* as they were, ends with a warning, returns False and hands over to the
\* next camera.
C10_EmptySelectionNoEffect ==
    [][(Len(log') = Len(log) + 1
           /\ SelectsNothing(meshObj, configs[i].selection_params)) =>
          /\ UNCHANGED <<uv, material_of, slots, images>>
          /\ log'[Len(log')].level = "warning"
          /\ ~log'[Len(log')].returned
          /\ i' = i + 1
          /\ pc' = "loop"]_vars

\* C10 witness: after a camera that textured faces, a camera of selection type
\* "custom" was processed and logged a warning.
C10_Witness ==
    /\ Len(log) = 2
    /\ log[1].returned
    /\ configs[2].selection_params.type = "custom"
    /\ log[2].level = "warning"
    /\ slots # <<>>


(***************************************************************************)
(* Statements about the selector and the projector.                        *)
(***************************************************************************)
\* C5: whenever select_faces_by_criteria returns, the selected faces are
\* exactly those all of whose vertices lie within tolerance of the extremum
\* over all vertices of the mesh and whose normal passes the filter (a zero
\* component failing both signs), and the returned count is their number; a
\* larger tolerance selects a superset, and ignoring the normal selects a
\* superset of either sign's selection.
C5_SelectionExact ==
    (pc = "selected" /\ ret.kind = "value") =>
        LET p == configs[1].selection_params
        IN  /\ selected = FacesOfCriteria(meshObj, p)
            /\ ret.value = Cardinality(selected)
            /\ \A e \in p.epsilon..MaxEpsilon :
                  selected \subseteq
                      SelectFacesByCriteria(meshObj, {}, [p EXCEPT !.epsilon = e]).select
            /\ selected \subseteq
                  SelectFacesByCriteria(meshObj, {}, [p EXCEPT !.normal_direction = 0]).select

\* C5 witness: with a normal filter on, the call selected some faces and left
\* out a face that has a vertex within tolerance of the extremum and a normal
\* on the demanded side, while faces were selected before the call.
C5_Witness ==
    /\ pc = "selected"
    /\ ret.kind = "value"
    /\ ret.value >= 1
    /\ LET p == configs[1].selection_params
           q == [p EXCEPT !.normal_direction = 0]
       IN  /\ p.normal_direction # 0
           /\ \E f \in FaceIds(meshObj) \ selected :
                 /\ f \notin FacesOfCriteria(meshObj, q)
                 /\ \E g \in FaceIds(meshObj) :
                       /\ g \in FacesOfCriteria(meshObj, q)
                       /\ \E k \in DOMAIN meshObj.faces[f].verts :
                             meshObj.faces[f].verts[k] \in
                                 {meshObj.faces[g].verts[j] : j \in DOMAIN meshObj.faces[g].verts}

\* camera-space position of loop k of face f for the scene's active camera
ViewOf(f, k) ==
    VertView(meshObj.matrix_world, Inverted(CameraMatrixWorld(sceneCameras[activeCamera])),
             meshObj.verts[meshObj.faces[f].verts[k]])

\* C7: after a perspective projection every loop of a selected face whose
\* camera-space z is >= 0 has UV (1/2, 1/2); every other loop has
\* u = 1/2 + x * lens * sensor_height / (-z * sensor_width^2) and
\* v = 1/2 + y * lens / (-z * sensor_width), unclamped, which is (1/2, 1/2)
\* on the optical axis.
C7_PerVertexFallback ==
    (pc = "projected" /\ sceneCameras[activeCamera].data.type = "PERSP") =>
        \A f \in selected : \A k \in DOMAIN meshObj.faces[f].verts :
            LET vv == ViewOf(f, k)
                d  == sceneCameras[activeCamera].data
                sw == d.sensor_width
                u  == uv[f][k][1]
                v  == uv[f][k][2]
            IN  /\ u.d > 0 /\ v.d > 0
                /\ vv[3] >= 0 => (u = Half /\ v = Half)
                /\ vv[3] < 0 =>
                      /\ u.n * (2 * (-vv[3]) * sw * sw)
                            = u.d * ((-vv[3]) * sw * sw + 2 * vv[1] * d.lens * d.sensor_height)
                      /\ v.n * (2 * (-vv[3]) * sw)
                            = v.d * ((-vv[3]) * sw + 2 * vv[2] * d.lens)
                /\ (vv[3] < 0 /\ vv[1] = 0 /\ vv[2] = 0) => (u = Half /\ v = Half)

\* C7 witness: a selected face has a loop on the camera plane, at (1/2, 1/2),
\* next to a loop in front of the camera whose computed u lies outside [0, 1];
\* another selected loop sits on the optical axis in front of the camera.
C7_Witness ==
    /\ pc = "projected"
    /\ sceneCameras[activeCamera].data.type = "PERSP"
    /\ \E f \in selected : \E a, b \in DOMAIN meshObj.faces[f].verts :
          /\ ViewOf(f, a)[3] = 0
          /\ uv[f][a] = <<Half, Half>>
          /\ ViewOf(f, b)[3] < 0
          /\ (RLess(uv[f][b][1], RInt(0)) \/ RLess(RInt(1), uv[f][b][1]))
    /\ \E f \in selected : \E a \in DOMAIN meshObj.faces[f].verts :
          /\ ViewOf(f, a)[3] < 0 /\ ViewOf(f, a)[1] = 0 /\ ViewOf(f, a)[2] = 0
          /\ uv[f][a] = <<Half, Half>>

(***************************************************************************)
(* Statements about the camera lookup.                                     *)
(***************************************************************************)
\* the scene camera process_camera_view finds for config number k:
\* self.cameras.get(config.name)
CameraOf(k) == sceneCameras[cameras[configs[k].name]]

\* C11: for every configuration that has been processed, the scene camera
\* found under its name is the one created from that configuration, at its
\* location and with its rotation; this for every loaded list, lists whose
\* configurations leave the name out and take the default "Camera" included.
C11_NameIsJoinKey ==
    SetupPassed =>
        \A k \in DOMAIN log :
            /\ configs[k].name \in DOMAIN cameras
            /\ cameras[configs[k].name] = k
            /\ CameraOf(k).location = configs[k].location
            /\ CameraOf(k).rotation = configs[k].rotation

====
